---- MODULE Spec2Model ----
(***************************************************************************)
(* A model of nuh_helper.date_shift: the identifier normalizer, the date   *)
(* parser, the shift mapping store (generate / load / reconcile /          *)
(* persist), the shift applicator and the orchestrator shift_excel_dates.  *)
(*                                                                         *)
(* Strings are sequences of one-character strings, so that strip(),        *)
(* lower(), str() and the date formats are computed, not assumed.          *)
(* Calendar dates are proleptic Gregorian ordinals (date.toordinal()).     *)
(***************************************************************************)
EXTENDS Integers, Sequences, FiniteSets, TLC

VARIABLES
    wb,             \* the input workbook: a sequence of sheets [name, grid]
    cfg,            \* the arguments of shift_excel_dates
    csv_in,         \* the file at linking_table_path (NoFile when absent)
    csv_out,        \* the file the run saves the linking table to (NoFile
                    \* until written)
    persisted,      \* the paths to_csv was called with (lines 413-417), in
                    \* call order
    rng,            \* the process-global random state of module random
    pc,             \* the orchestrator's position
    patient_ids,    \* shift_excel_dates: patient_ids (line 332)
    loaded,         \* what load_shift_mappings returned (line 342)
    reconciled,     \* shift_mappings as it stands after line 358
    shift_mappings, \* shift_mappings after line 362
    sheet_idx,      \* index of the next sheet of the for loop (line 368)
    out_wb,         \* the sheets written to the ExcelWriter so far; the with
                    \* statement of line 365 saves them to output_file when
                    \* the block is left, by its end or by an exception
    run,            \* 1 for the first run, 2 for the re-run
    prev,           \* what the first run produced (kept for the re-run)
    atab,           \* apply_date_shifts: the arguments of a direct call
    ares            \* apply_date_shifts: the table a direct call returned

vars == <<wb, cfg, csv_in, csv_out, persisted, rng, pc, patient_ids, loaded, reconciled,
          shift_mappings, sheet_idx, out_wb, run, prev, atab, ares>>

(***************************************************************************)
(* Cell values.  t is the Python type of the value.                        *)
(*   "none"      None                                                      *)
(*   "nan"       float('nan')                                              *)
(*   "str"       a string, s its characters                                *)
(*   "int"       an integer n                                              *)
(*   "float"     the integral float n.0                                    *)
(*   "date"      datetime.date, n its ordinal                              *)
(*   "datetime"  datetime.datetime, n its ordinal and h its hour of day    *)
(*   "ts"        pandas.Timestamp, n its ordinal and h its hour of day     *)
(***************************************************************************)
Cell(t, s, n, h) == [t |-> t, s |-> s, n |-> n, h |-> h]

None == Cell("none", <<>>, 0, 0)

NaN == Cell("nan", <<>>, 0, 0)

Str(s) == Cell("str", s, 0, 0)

IntV(n) == Cell("int", <<>>, n, 0)

FloatV(n) == Cell("float", <<>>, n, 0)

DateV(n) == Cell("date", <<>>, n, 0)

DateTimeV(n, h) == Cell("datetime", <<>>, n, h)

Timestamp(n, h) == Cell("ts", <<>>, n, h)

Range(f) == {f[i] : i \in DOMAIN f}

(***************************************************************************)
(* Characters and the string methods the code uses.                        *)
(***************************************************************************)
DigitChars == <<"0", "1", "2", "3", "4", "5", "6", "7", "8", "9">>

IsDigit(c) == \E i \in 1..10 : DigitChars[i] = c

DigitVal(c) == (CHOOSE i \in 1..10 : DigitChars[i] = c) - 1

Whitespace == {" ", "\t", "\n", "\r"}

UpperChars == <<"A", "B", "C", "D", "E", "F", "G", "H", "I", "J", "K", "L", "M",
                "N", "O", "P", "Q", "R", "S", "T", "U", "V", "W", "X", "Y", "Z">>

LowerChars == <<"a", "b", "c", "d", "e", "f", "g", "h", "i", "j", "k", "l", "m",
                "n", "o", "p", "q", "r", "s", "t", "u", "v", "w", "x", "y", "z">>

\* str.lower() of one character
LowerChar(c) ==
    IF \E i \in 1..26 : UpperChars[i] = c
    THEN LowerChars[CHOOSE i \in 1..26 : UpperChars[i] = c]
    ELSE c

\* str.lower()
Lower(s) == [i \in 1..Len(s) |-> LowerChar(s[i])]

RECURSIVE LStrip(_)
LStrip(s) ==
    IF s # <<>> /\ Head(s) \in Whitespace THEN LStrip(Tail(s)) ELSE s

RECURSIVE RStrip(_)
RStrip(s) ==
    IF s # <<>> /\ s[Len(s)] \in Whitespace
    THEN RStrip(SubSeq(s, 1, Len(s) - 1))
    ELSE s

\* str.strip()
Strip(s) == RStrip(LStrip(s))

\* the decimal digits of a natural number
RECURSIVE NatToStr(_)
NatToStr(n) ==
    IF n < 10 THEN <<DigitChars[n + 1]>>
    ELSE NatToStr(n \div 10) \o <<DigitChars[(n % 10) + 1]>>

\* str(n) of an int
IntToStr(n) == IF n < 0 THEN <<"-">> \o NatToStr(-n) ELSE NatToStr(n)

\* int(s) of a string of digits
RECURSIVE StrToNat(_)
StrToNat(s) ==
    IF s = <<>> THEN 0
    ELSE 10 * StrToNat(SubSeq(s, 1, Len(s) - 1)) + DigitVal(s[Len(s)])

AllDigits(s) == s # <<>> /\ \A i \in 1..Len(s) : IsDigit(s[i])

\* str(value) of a scalar that is not a string
PyStr(v) ==
    CASE v.t = "int" -> IntToStr(v.n)
      [] v.t = "float" -> IntToStr(v.n) \o <<".", "0">>
      [] v.t = "none" -> <<"N", "o", "n", "e">>
      [] v.t = "nan" -> <<"n", "a", "n">>

(***************************************************************************)
(* _normalize_patient_id                                                   *)
(***************************************************************************)
NormalizeNoStrip(value) ==
    IF value.t \in {"none", "nan"} THEN None
    ELSE IF value.t = "str" THEN (IF value.s = <<>> THEN None ELSE value)
    ELSE Str(PyStr(value))

_normalize_patient_id(value) ==
    IF value.t \in {"none", "nan"} THEN None
    ELSE LET v == Strip(IF value.t = "str" THEN value.s ELSE PyStr(value))
         IN  IF v = <<>> THEN None ELSE Str(v)

(***************************************************************************)
(* Calendar arithmetic: datetime.date(y, m, d).toordinal().                *)
(***************************************************************************)
IsLeap(y) == (y % 4 = 0) /\ ((y % 100 # 0) \/ (y % 400 = 0))

DaysInMonth(y, m) ==
    IF m = 2 THEN (IF IsLeap(y) THEN 29 ELSE 28)
    ELSE IF m \in {4, 6, 9, 11} THEN 30 ELSE 31

RECURSIVE DaysBeforeMonth(_, _)
DaysBeforeMonth(y, m) ==
    IF m = 1 THEN 0 ELSE DaysBeforeMonth(y, m - 1) + DaysInMonth(y, m - 1)

DaysBeforeYear(y) ==
    (y - 1) * 365 + ((y - 1) \div 4) - ((y - 1) \div 100) + ((y - 1) \div 400)

ValidDate(y, m, d) ==
    /\ y >= 1
    /\ m \in 1..12
    /\ d >= 1
    /\ d <= DaysInMonth(y, m)

ToOrdinal(y, m, d) == DaysBeforeYear(y) + DaysBeforeMonth(y, m) + d

(***************************************************************************)
(* _parse_date_value                                                       *)
(***************************************************************************)
NaT == Cell("nat", <<>>, 0, 0)

\* str.split(sep) for a one-character separator
RECURSIVE Split(_, _)
Split(s, sep) ==
    IF \A i \in 1..Len(s) : s[i] # sep THEN <<s>>
    ELSE LET k == CHOOSE i \in 1..Len(s) :
                      s[i] = sep /\ \A j \in 1..(i - 1) : s[j] # sep
         IN  <<SubSeq(s, 1, k - 1)>> \o Split(SubSeq(s, k + 1, Len(s)), sep)

\* one strptime directive against one field: %Y is four digits, %m is
\* 1..12 and %d is 1..31, each in one or two digits
FieldMatches(dir, f) ==
    /\ AllDigits(f)
    /\ CASE dir = "Y" -> Len(f) = 4
         [] dir = "m" -> Len(f) \in 1..2 /\ StrToNat(f) \in 1..12
         [] dir = "d" -> Len(f) \in 1..2 /\ StrToNat(f) \in 1..31

FieldOf(fmt, fields, dir) ==
    StrToNat(fields[CHOOSE i \in 1..3 : fmt[i] = dir])

\* pd.to_datetime(v, format=fmt, errors="coerce") for a format of three
\* directives joined by sep; NaT when the string does not match the format
\* or names no calendar date
Strptime(v, fmt, sep) ==
    LET fields == Split(v, sep)
    IN  IF Len(fields) = 3 /\ \A i \in 1..3 : FieldMatches(fmt[i], fields[i])
        THEN LET y == FieldOf(fmt, fields, "Y")
                 m == FieldOf(fmt, fields, "m")
                 d == FieldOf(fmt, fields, "d")
             IN  IF ValidDate(y, m, d) THEN Timestamp(ToOrdinal(y, m, d), 0) ELSE NaT
        ELSE NaT

\* the placeholder tokens of line 75
Placeholders ==
    { <<"u", "n", "k", "n", "o", "w", "n">>,
      <<"u", "n", "k">>,
      <<"u", "n", "k", "o", "w", "n">>,
      <<"n", "/", "a">>,
      <<"n", "o", "n", "e">>,
      <<"n", "u", "l", "l">> }

\* the explicit formats of line 79, in the order they are tried
FormatsSwapped ==
    << <<"Y", "d", "m">>, <<"Y", "m", "d">>, <<"m", "d", "Y">>, <<"d", "m", "Y">> >>

Formats ==
    << <<"Y", "m", "d">>, <<"Y", "d", "m">>, <<"d", "m", "Y">>, <<"m", "d", "Y">> >>

\* the loop of lines 79-85: the first format that yields a date wins
RECURSIVE TryFormats(_, _)
TryFormats(v, k) ==
    IF k > Len(Formats) THEN NaT
    ELSE LET parsed == Strptime(v, Formats[k], "-")
         IN  IF parsed # NaT THEN parsed ELSE TryFormats(v, k + 1)

\* pd.to_datetime(v, errors="coerce", dayfirst=True) on the strings the
\* formats rejected: a/b/YYYY is read day first, and month first when b
\* cannot be a month; any other string the model holds is not a date
GeneralParse(v) ==
    LET dayfirst == Strptime(v, <<"d", "m", "Y">>, "/")
    IN  IF dayfirst # NaT THEN dayfirst ELSE Strptime(v, <<"m", "d", "Y">>, "/")

ParseKeepsUnparsed(value) ==
    IF value.t \in {"none", "nan"} THEN None
    ELSE IF value.t \in {"ts", "datetime", "date"} THEN Timestamp(value.n, value.h)
    ELSE IF value.t = "str" THEN
        LET v == Strip(value.s)
        IN  IF v = <<>> THEN None
            ELSE LET parsed == TryFormats(v, 1)
                     general == GeneralParse(v)
                 IN  IF parsed # NaT THEN parsed
                     ELSE IF general # NaT THEN general
                     ELSE value
    ELSE None

_parse_date_value(value) ==
    IF value.t \in {"none", "nan"} THEN None
    ELSE IF value.t \in {"ts", "datetime", "date"} THEN Timestamp(value.n, value.h)
    ELSE IF value.t = "str" THEN
        LET v == Strip(value.s)
        IN  IF v = <<>> \/ Lower(v) \in Placeholders THEN None
            ELSE LET parsed == TryFormats(v, 1)
                     general == GeneralParse(v)
                 IN  IF parsed # NaT THEN parsed
                     ELSE IF general # NaT THEN general
                     ELSE None
    ELSE None

DateOfKeepsTime(x) == x

\* Timestamp.date(): the calendar date of a timestamp
DateOf(x) == DateV(x.n)

(***************************************************************************)
(* Tables.  A DataFrame is [cols, rows]: the column labels and the data    *)
(* rows, each row a sequence of cells in column order.  A mapping table    *)
(* is a sequence of [patient_id, shift_days] rows.                         *)
(***************************************************************************)
DataFrame(cols, rows) == [cols |-> cols, rows |-> rows]

\* df.columns.get_loc(label): the position of a column label
ColIdx(cols, label) ==
    CHOOSE i \in 1..Len(cols) :
        cols[i] = label /\ \A j \in 1..(i - 1) : cols[j] # label

MaxOf(S) == CHOOSE x \in S : \A y \in S : y <= x

\* dict(zip(shift_mappings["patient_id"], shift_mappings["shift_days"])):
\* a later row replaces an earlier one with the same key
ShiftDictFirst(m) ==
    [k \in {m[i].patient_id : i \in DOMAIN m} |->
        m[CHOOSE i \in DOMAIN m :
              m[i].patient_id = k /\ \A j \in 1..(i - 1) : m[j].patient_id # k
         ].shift_days]

ShiftDict(m) ==
    [k \in {m[i].patient_id : i \in DOMAIN m} |->
        m[MaxOf({i \in DOMAIN m : m[i].patient_id = k})].shift_days]

(***************************************************************************)
(* apply_date_shifts                                                       *)
(***************************************************************************)
\* lines 144-159 for the cell of one row in date column di; pi is the
\* position of the identifier column
ShiftCellNoLookup(row, di, pi, shift_dict) ==
    LET parsed == _parse_date_value(row[di])
    IN  IF parsed.t = "ts" THEN DateOf(parsed) ELSE None

ShiftCellKeepTime(row, di, pi, shift_dict) ==
    LET parsed == _parse_date_value(row[di])
        pid == [row EXCEPT ![di] = parsed][pi]
    IN  IF parsed # None /\ pid \in DOMAIN shift_dict
        THEN DateOf(Timestamp(parsed.n + shift_dict[pid], parsed.h))
        ELSE parsed

ShiftCellRaw(row, di, pi, shift_dict) ==
    LET parsed == _parse_date_value(row[di])
        pid == [row EXCEPT ![di] = parsed][pi]
    IN  IF parsed # None /\ pid \in DOMAIN shift_dict
        THEN DateOf(Timestamp(parsed.n + shift_dict[pid], parsed.h))
        ELSE row[di]

ShiftCell(row, di, pi, shift_dict) ==
    LET parsed == _parse_date_value(row[di])
        pid == [row EXCEPT ![di] = parsed][pi]
        shifted == IF parsed # None /\ pid \in DOMAIN shift_dict
                   THEN Timestamp(parsed.n + shift_dict[pid], parsed.h)
                   ELSE parsed
    IN  IF shifted.t \in {"ts", "datetime", "date"} THEN DateOf(shifted) ELSE None

RECURSIVE ApplyColumnsBreak(_, _, _, _, _)
ApplyColumnsBreak(df, patient_id_col, date_columns, shift_dict, k) ==
    IF k > Len(date_columns) \/ date_columns[k] \notin Range(df.cols) THEN df
    ELSE LET di == ColIdx(df.cols, date_columns[k])
             pi == ColIdx(df.cols, patient_id_col)
             rows == [r \in DOMAIN df.rows |->
                         [df.rows[r] EXCEPT
                             ![di] = ShiftCell(df.rows[r], di, pi, shift_dict)]]
         IN  ApplyColumnsBreak([df EXCEPT !.rows = rows], patient_id_col,
                               date_columns, shift_dict, k + 1)

\* the loop of lines 139-159 from the k-th name of date_columns on
RECURSIVE ApplyColumns(_, _, _, _, _)
ApplyColumns(df, patient_id_col, date_columns, shift_dict, k) ==
    IF k > Len(date_columns) THEN df
    ELSE IF date_columns[k] \notin Range(df.cols)
    THEN ApplyColumns(df, patient_id_col, date_columns, shift_dict, k + 1)
    ELSE LET di == ColIdx(df.cols, date_columns[k])
             pi == ColIdx(df.cols, patient_id_col)
             rows == [r \in DOMAIN df.rows |->
                         [df.rows[r] EXCEPT
                             ![di] = ShiftCell(df.rows[r], di, pi, shift_dict)]]
         IN  ApplyColumns([df EXCEPT !.rows = rows], patient_id_col,
                          date_columns, shift_dict, k + 1)

\* line 133: the identifier column of the working copy is normalized
NormalizeIdColumn(df, patient_id_col) ==
    LET pi == ColIdx(df.cols, patient_id_col)
    IN  [df EXCEPT !.rows = [r \in DOMAIN df.rows |->
            [df.rows[r] EXCEPT ![pi] = _normalize_patient_id(df.rows[r][pi])]]]

\* line 130: df = df.copy().  The assignments of lines 133-157 go to the
\* copy, so the table the caller passed has after the call the value it had
\* before; were df not copied it would have the value of the result.
CallerTableAliased(df, result) == result

CallerTable(df, result) == df

ApplyRawIds(df, patient_id_col, date_columns, mappings) ==
    ApplyColumns(df, patient_id_col, date_columns, ShiftDict(mappings), 1)

apply_date_shifts(df, patient_id_col, date_columns, mappings) ==
    ApplyColumns(NormalizeIdColumn(df, patient_id_col), patient_id_col,
                 date_columns, ShiftDict(mappings), 1)

(***************************************************************************)
(* The random module.  The state is either seeded, and then every draw is  *)
(* a function of the state, or it is whatever the process started with,    *)
(* and then a draw may be any value of the range.                          *)
(***************************************************************************)
RngMod == 16

RngMul == 5

RngInc == 3

RngEntropy == [seeded |-> FALSE, s |-> 0]

\* random.seed(k)
RngSeed(k) == [seeded |-> TRUE, s |-> k % RngMod]

RngStep(r) == IF r.seeded THEN [r EXCEPT !.s = (RngMul * r.s + RngInc) % RngMod] ELSE r

RECURSIVE RngAfter(_, _)
RngAfter(r, n) == IF n = 0 THEN r ELSE RngAfter(RngStep(r), n - 1)

\* random.randint(a, b) in a seeded state
RandintExclusive(r, a, b) == a + (r.s % (b - a))

Randint(r, a, b) == a + (r.s % (b - a + 1))

\* the values n successive random.randint(a, b) may return from state r
PossibleShiftsWide(r, n, a, b) ==
    IF n > 0 /\ a > b THEN {}
    ELSE IF r.seeded THEN {[i \in 1..n |-> Randint(RngAfter(r, i - 1), a, b + 1)]}
    ELSE [1..n -> a..(b + 1)]

PossibleShifts(r, n, a, b) ==
    IF n > 0 /\ a > b THEN {}
    ELSE IF r.seeded THEN {[i \in 1..n |-> Randint(RngAfter(r, i - 1), a, b)]}
    ELSE [1..n -> a..b]

(***************************************************************************)
(* generate_shift_mappings.  seed is <<>> for None and <<k>> for k.  The   *)
(* result is the set of outcomes [df, rng] the call may have from random   *)
(* state r; the set is empty when random.randint raises.                   *)
(***************************************************************************)
SeedIgnored(seed, r) == r

\* lines 34-35
SeedOrKeep(seed, r) == IF seed # <<>> THEN RngSeed(seed[1]) ELSE r

GenerateOneForAll(ids, a, b, seed, r) ==
    { [df |-> [i \in 1..Len(ids) |-> [patient_id |-> ids[i], shift_days |-> sh[1]]],
       rng |-> RngAfter(SeedOrKeep(seed, r), 1)] :
      sh \in PossibleShifts(SeedOrKeep(seed, r), 1, a, b) }

generate_shift_mappings(ids, a, b, seed, r) ==
    { [df |-> [i \in 1..Len(ids) |-> [patient_id |-> ids[i], shift_days |-> sh[i]]],
       rng |-> RngAfter(SeedOrKeep(seed, r), Len(ids))] :
      sh \in PossibleShifts(SeedOrKeep(seed, r), Len(ids), a, b) }

(***************************************************************************)
(* The linking table file.  A CSV file is text: [exists, cols, rows], each *)
(* row [c1, c2] the text of the first field and the integer the second     *)
(* field spells.                                                           *)
(***************************************************************************)
NoFile == [exists |-> FALSE, cols |-> <<>>, rows |-> <<>>]

LinkingCols == <<"patient_id", "shift_days">>

\* DataFrame.to_csv(path, index=False): a string is written as its characters
to_csv(m) ==
    [exists |-> TRUE, cols |-> LinkingCols,
     rows |-> [i \in 1..Len(m) |-> [c1 |-> m[i].patient_id.s,
                                     c2 |-> m[i].shift_days]]]

\* fields pd.read_csv reads as missing (some of its default na_values)
NaTokens ==
    { <<>>, <<"N", "A">>, <<"N", "/", "A">>, <<"n", "/", "a">>,
      <<"N", "a", "N">>, <<"n", "a", "n">>, <<"N", "U", "L", "L">>,
      <<"n", "u", "l", "l">>, <<"N", "o", "n", "e">> }

IsIntLiteral(t) ==
    \/ AllDigits(t)
    \/ Len(t) > 1 /\ t[1] \in {"-", "+"} /\ AllDigits(Tail(t))

IntLiteral(t) ==
    IF t[1] = "-" THEN 0 - StrToNat(Tail(t))
    ELSE IF t[1] = "+" THEN StrToNat(Tail(t))
    ELSE StrToNat(t)

\* pd.read_csv's type inference for one column of fields: a column whose
\* fields all spell integers is an integer column (a float column when a
\* field is missing); any other column keeps its fields as strings
ReadCsvColumnAsStr(texts) ==
    [i \in 1..Len(texts) |-> IF texts[i] = <<>> THEN NaN ELSE Str(texts[i])]

ReadCsvColumn(texts) ==
    LET present == {i \in 1..Len(texts) : texts[i] \notin NaTokens}
        numeric == \A i \in present : IsIntLiteral(texts[i])
    IN  [i \in 1..Len(texts) |->
            IF i \notin present THEN NaN
            ELSE IF ~numeric THEN Str(texts[i])
            ELSE IF present = 1..Len(texts) THEN IntV(IntLiteral(texts[i]))
            ELSE FloatV(IntLiteral(texts[i]))]

\* pd.read_csv(csv_path) of a two-column file, as rows [patient_id, shift_days]
read_csv(file) ==
    LET ids == ReadCsvColumn([i \in 1..Len(file.rows) |-> file.rows[i].c1])
    IN  [i \in 1..Len(file.rows) |->
            [patient_id |-> ids[i], shift_days |-> file.rows[i].c2]]

LoadRequiresEither(file) ==
    IF "patient_id" \notin Range(file.cols) /\ "shift_days" \notin Range(file.cols)
    THEN [ok |-> FALSE, df |-> <<>>]
    ELSE [ok |-> TRUE, df |-> read_csv(file)]

\* load_shift_mappings: ok is FALSE when it raises ValueError
load_shift_mappings(file) ==
    IF "patient_id" \notin Range(file.cols) \/ "shift_days" \notin Range(file.cols)
    THEN [ok |-> FALSE, df |-> <<>>]
    ELSE [ok |-> TRUE, df |-> read_csv(file)]

(***************************************************************************)
(* shift_excel_dates: building the mapping (lines 332-362).                *)
(***************************************************************************)
\* .dropna(): the rows whose identifier is defined
DropNa(m) == SelectSeq(m, LAMBDA e : e.patient_id \notin {None, NaN})

\* .drop_duplicates(subset=["patient_id"], keep="first")
RECURSIVE DropDuplicatesLast(_)
DropDuplicatesLast(m) ==
    IF m = <<>> THEN <<>>
    ELSE IF \E i \in 2..Len(m) : m[i].patient_id = m[1].patient_id
         THEN DropDuplicatesLast(Tail(m))
         ELSE <<m[1]>> \o DropDuplicatesLast(Tail(m))

RECURSIVE DropDuplicates(_)
DropDuplicates(m) ==
    IF m = <<>> THEN <<>>
    ELSE LET init == DropDuplicates(SubSeq(m, 1, Len(m) - 1))
             last == m[Len(m)]
         IN  IF \E i \in DOMAIN init : init[i].patient_id = last.patient_id
             THEN init
             ELSE Append(init, last)

\* lines 332-338: the patient sheet's identifiers, normalized, without the
\* undefined ones, without repetitions, in first-seen order
PatientIdsKeepDuplicates(df, patient_id_col) ==
    LET pi == ColIdx(df.cols, patient_id_col)
        col == [r \in DOMAIN df.rows |->
                   [patient_id |-> _normalize_patient_id(df.rows[r][pi])]]
        kept == DropNa(col)
    IN  [i \in DOMAIN kept |-> kept[i].patient_id]

PatientIds(df, patient_id_col) ==
    LET pi == ColIdx(df.cols, patient_id_col)
        col == [r \in DOMAIN df.rows |->
                   [patient_id |-> _normalize_patient_id(df.rows[r][pi])]]
        kept == DropDuplicates(DropNa(col))
    IN  [i \in DOMAIN kept |-> kept[i].patient_id]

\* lines 344-346: shift_mappings[shift_mappings["patient_id"].isin(patient_ids)]
FilterKeepAll(m, ids) == m

FilterLoaded(m, ids) == SelectSeq(m, LAMBDA e : e.patient_id \in Range(ids))

\* lines 348-349
MissingIdsAll(m, ids) == ids

MissingIds(m, ids) ==
    SelectSeq(ids, LAMBDA p : p \notin {m[i].patient_id : i \in DOMAIN m})

\* lines 361-362
NormalizeMapping(m) ==
    DropDuplicates(DropNa(
        [i \in DOMAIN m |->
            [m[i] EXCEPT !.patient_id = _normalize_patient_id(m[i].patient_id)]]))

(***************************************************************************)
(* shift_excel_dates: reading and writing a sheet.  A sheet is             *)
(* [name, grid], the grid its rows from the top, header row included.      *)
(***************************************************************************)
\* pd.read_excel(..., header=h): the column labels it makes of the header
\* row.  A blank header cell is labelled "Unnamed: j", j its zero-based
\* position, and a label that occurred k times before gets the suffix ".k".
ColumnLabelsVerbatim(row) == row

ColumnLabels(row) ==
    LET named == [j \in DOMAIN row |->
                     IF row[j].t \in {"none", "nan"}
                     THEN Str(<<"U", "n", "n", "a", "m", "e", "d", ":", " ">>
                              \o NatToStr(j - 1))
                     ELSE row[j]]
    IN  [j \in DOMAIN row |->
            LET k == Cardinality({i \in 1..(j - 1) : named[i] = named[j]})
            IN  IF k > 0 /\ named[j].t = "str"
                THEN Str(named[j].s \o <<".">> \o NatToStr(k))
                ELSE named[j]]

\* the reader without the description rows
ReadSheetNoDescription(sheet, header_row) ==
    [df |-> DataFrame(ColumnLabels(sheet.grid[header_row + 1]),
                      SubSeq(sheet.grid, header_row + 2, Len(sheet.grid))),
     description_rows |-> <<>>]

\* _read_sheet_with_structure (lines 205-240)
ReadSheet(sheet, header_row) ==
    IF header_row = 0
    THEN [df |-> DataFrame(ColumnLabels(sheet.grid[1]),
                           SubSeq(sheet.grid, 2, Len(sheet.grid))),
          description_rows |-> <<>>]
    ELSE [df |-> DataFrame(ColumnLabels(sheet.grid[header_row + 1]),
                           SubSeq(sheet.grid, header_row + 2, Len(sheet.grid))),
          description_rows |-> SubSeq(sheet.grid, 1, header_row)]

\* a missing value is written as an empty cell
Written(v) == IF v.t \in {"none", "nan", "nat"} THEN None ELSE v

\* the writer with the data at the top of the sheet
WriteSheetNoDescription(name, df, description_rows) ==
    [name |-> name,
     grid |-> <<df.cols>>
              \o [i \in DOMAIN df.rows |->
                  [j \in DOMAIN df.rows[i] |-> Written(df.rows[i][j])]]]

\* _write_sheet_with_structure (lines 275-304): the description rows at the
\* top, the header below them, the data rows below the header
WriteSheet(name, df, description_rows) ==
    [name |-> name,
     grid |-> [i \in DOMAIN description_rows |->
                  [j \in DOMAIN description_rows[i] |-> Written(description_rows[i][j])]]
              \o <<df.cols>>
              \o [i \in DOMAIN df.rows |->
                  [j \in DOMAIN df.rows[i] |-> Written(df.rows[i][j])]]]

\* the header_row a sheet is read with (lines 370-383)
HeaderRowOf(sheet_configs, name) ==
    IF name \in DOMAIN sheet_configs THEN sheet_configs[name].header_row ELSE 0

\* lines 340-362: the outcomes of building the mapping from random state r.
\* ok is FALSE when load_shift_mappings or random.randint raises.
BuildFailed == [ok |-> FALSE, loaded |-> <<>>, reconciled |-> <<>>, rng |-> RngEntropy]

BuildOrReconcile(ids, file, a, b, seed, r) ==
    IF file.exists
    THEN LET ld == load_shift_mappings(file)
             kept == FilterLoaded(ld.df, ids)
             missing_ids == MissingIds(kept, ids)
             gens == generate_shift_mappings(missing_ids, a, b, seed, r)
         IN  IF ~ld.ok THEN {BuildFailed}
             ELSE IF missing_ids = <<>>
             THEN {[ok |-> TRUE, loaded |-> ld.df, reconciled |-> kept, rng |-> r]}
             ELSE IF gens = {} THEN {BuildFailed}
             ELSE {[ok |-> TRUE, loaded |-> ld.df, reconciled |-> kept \o g.df,
                    rng |-> g.rng] : g \in gens}
    ELSE LET gens == generate_shift_mappings(ids, a, b, seed, r)
         IN  IF gens = {} THEN {BuildFailed}
             ELSE {[ok |-> TRUE, loaded |-> <<>>, reconciled |-> g.df,
                    rng |-> g.rng] : g \in gens}

(***************************************************************************)
(* The inputs the model runs shift_excel_dates on.                         *)
(***************************************************************************)
MaxPatientRows == 2

MaxLoaded == 2

s_patient_id == <<"p", "a", "t", "i", "e", "n", "t", "_", "i", "d">>

s_dob == <<"d", "o", "b">>

s_date_result == <<"d", "a", "t", "e", "_", "r", "e", "s", "u", "l", "t">>

s_taken_on == <<"t", "a", "k", "e", "n", "_", "o", "n">>

s_measurement == <<"m", "e", "a", "s", "u", "r", "e", "m", "e", "n", "t">>

s_absent == <<"a", "b", "s", "e", "n", "t">>

Pad2(n) == IF n < 10 THEN <<"0">> \o NatToStr(n) ELSE NatToStr(n)

\* the text a-b-c with separator sep
Join3(a, b, c, sep) == a \o <<sep>> \o b \o <<sep>> \o c

P1 == Str(<<"P", "1">>)

P1Padded == Str(<<" ", "P", "1", " ">>)

P9 == Str(<<"P", "9">>)

S12 == Str(<<"1", "2">>)

Unknown == Str(<<"u", "n", "k", "n", "o", "w", "n">>)

\* identifier cells of the patient sheet
PatientIdCells == {P1Padded, IntV(12), NaN}

\* the dob cell of the i-th patient row
DobCells ==
    << Str(Join3(NatToStr(2023), Pad2(1), Pad2(30), "-")),
       DateTimeV(ToOrdinal(2024, 2, 28), 13),
       Str(<<" ", "U", "n", "k", "n", "o", "w", "n">>) >>

DobOf(i) == DobCells[((i - 1) % Len(DobCells)) + 1]

PatientsSheet(idcells) ==
    [name |-> "patients",
     grid |-> << <<Str(s_patient_id), Str(s_dob)>> >>
              \o [i \in 1..Len(idcells) |-> <<idcells[i], DobOf(i)>>]]

ResultsSheet ==
    [name |-> "results",
     grid |-> <<
        <<Str(<<"e", "x", "p", "o", "r", "t">>), NaN, NaN, NaN>>,
        <<Str(s_patient_id), Str(s_date_result), Str(s_taken_on), Str(s_measurement)>>,
        <<P1, Str(Join3(NatToStr(2023), Pad2(15), Pad2(1), "-")),
          DateTimeV(ToOrdinal(2023, 3, 1), 13), IntV(7)>>,
        <<IntV(12), Str(Join3(Pad2(31), Pad2(12), NatToStr(2023), "-")),
          Unknown, IntV(8)>>,
        <<P9, Str(Join3(Pad2(30), Pad2(1), NatToStr(2023), "/")),
          DateV(ToOrdinal(2023, 1, 1)), IntV(9)>>,
        <<NaN, Str(Join3(NatToStr(2023), Pad2(1), Pad2(30), "-")), NaN, IntV(1)>> >>]

NotesSheet ==
    [name |-> "notes",
     grid |-> << <<Str(<<"n", "o", "t", "e">>)>>,
                 <<Str(Join3(NatToStr(2023), Pad2(1), Pad2(30), "-"))>> >>]

Workbook(idcells) == <<PatientsSheet(idcells), ResultsSheet, NotesSheet>>

PatientColumns == UNION {[1..n -> PatientIdCells] : n \in 1..MaxPatientRows}

SheetConfigs ==
    [n \in {"patients", "results"} |->
        IF n = "patients"
        THEN [patient_id_col |-> Str(s_patient_id),
              date_columns |-> <<Str(s_dob)>>, header_row |-> 0]
        ELSE [patient_id_col |-> Str(s_patient_id),
              date_columns |-> <<Str(s_date_result), Str(s_absent), Str(s_taken_on)>>,
              header_row |-> 1]]

Seeds == {<<>>, <<1>>}

\* linking_table_output as a caller gives it
LinkingOut == Str(<<"o", "u", "t", ".", "c", "s", "v">>)

\* 'shift_mappings.csv', the path of line 417
DefaultLinkingOut ==
    Str(<<"s", "h", "i", "f", "t", "_", "m", "a", "p", "p", "i", "n", "g", "s",
          ".", "c", "s", "v">>)

ShiftRanges == {<<-1, 1>>}

Configs ==
    { [patient_sheet |-> "patients", patient_id_col |-> Str(s_patient_id),
       patient_header_row |-> 0, sheet_configs |-> SheetConfigs,
       min_shift_days |-> rg[1], max_shift_days |-> rg[2], seed |-> sd,
       linking_table_output |-> LinkingOut] :
      rg \in ShiftRanges, sd \in Seeds }

\* rows of a linking table somebody supplies
SuppliedRows ==
    { [c1 |-> <<"P", "1">>, c2 |-> -20],
      [c1 |-> <<"P", "1">>, c2 |-> 3],
      [c1 |-> <<" ", "P", "1">>, c2 |-> 3],
      [c1 |-> <<"1", "2">>, c2 |-> 3] }

SuppliedFiles ==
    {NoFile, [exists |-> TRUE, cols |-> <<"id", "days">>, rows |-> <<>>]}
    \cup { [exists |-> TRUE, cols |-> LinkingCols, rows |-> rows] :
           rows \in UNION {[1..n -> SuppliedRows] : n \in 0..MaxLoaded} }

\* Further calls: the sheets in another order, a configured identifier
\* column that the patient sheet or a configured sheet does not have, sheets
\* left out of sheet_configs, and linking tables that lack one of the two
\* required columns.
BaseConfig ==
    [patient_sheet |-> "patients", patient_id_col |-> Str(s_patient_id),
     patient_header_row |-> 0, sheet_configs |-> SheetConfigs,
     min_shift_days |-> -1, max_shift_days |-> 1, seed |-> <<1>>,
     linking_table_output |-> LinkingOut]

VariantConfigs ==
    { BaseConfig,
      [BaseConfig EXCEPT !.patient_id_col = Str(s_absent)],
      [BaseConfig EXCEPT !.sheet_configs =
          [SheetConfigs EXCEPT !["results"].patient_id_col = Str(s_absent)]],
      [BaseConfig EXCEPT !.sheet_configs = [n \in {"results"} |-> SheetConfigs[n]]],
      [BaseConfig EXCEPT !.sheet_configs = [n \in {"patients"} |-> SheetConfigs[n]]],
      [BaseConfig EXCEPT !.linking_table_output = None],
      [BaseConfig EXCEPT !.linking_table_output = Str(<<>>)] }

VariantWorkbooks ==
    { <<PatientsSheet(<<P1Padded, IntV(12)>>), ResultsSheet, NotesSheet>>,
      <<NotesSheet, ResultsSheet, PatientsSheet(<<P1Padded, IntV(12)>>)>> }

VariantFiles ==
    { NoFile,
      [exists |-> TRUE, cols |-> LinkingCols,
       rows |-> <<[c1 |-> <<"P", "1">>, c2 |-> 3]>>],
      [exists |-> TRUE, cols |-> LinkingCols,
       rows |-> <<[c1 |-> <<"P", "1">>, c2 |-> 3], [c1 |-> <<"1", "2">>, c2 |-> -4]>>],
      [exists |-> TRUE, cols |-> <<"patient_id", "days">>,
       rows |-> <<[c1 |-> <<"P", "1">>, c2 |-> 3]>>],
      [exists |-> TRUE, cols |-> <<"id", "shift_days">>,
       rows |-> <<[c1 |-> <<"P", "1">>, c2 |-> 3]>>] }

\* the calls of shift_excel_dates the model makes
Calls ==
    { [wb |-> Workbook(c), cfg |-> g, csv_in |-> f] :
        c \in PatientColumns, g \in Configs, f \in SuppliedFiles }
    \cup
    { [wb |-> w, cfg |-> g, csv_in |-> f] :
        w \in VariantWorkbooks, g \in VariantConfigs, f \in VariantFiles }

(***************************************************************************)
(* shift_excel_dates as a state machine:                                   *)
(* ReadPatientTable -> BuildOrReconcileMapping -> ForEachTable ->          *)
(* PersistMapping -> Done, or Error<state> when that state raises.         *)
(***************************************************************************)
NoCall == [df |-> DataFrame(<<>>, <<>>), patient_id_col |-> None,
           date_columns |-> <<>>, mappings |-> <<>>]

\* ares is the result of the call and args the arguments as they were when
\* the call was made
NotCalled == [called |-> FALSE, df |-> DataFrame(<<>>, <<>>), args |-> NoCall]

Init ==
    /\ \E call \in Calls :
          /\ wb = call.wb
          /\ cfg = call.cfg
          /\ csv_in = call.csv_in
    /\ csv_out = NoFile
    /\ persisted = <<>>
    /\ rng = RngEntropy
    /\ pc = "ReadPatientTable"
    /\ patient_ids = <<>>
    /\ loaded = <<>>
    /\ reconciled = <<>>
    /\ shift_mappings = <<>>
    /\ sheet_idx = 1
    /\ out_wb = <<>>
    /\ run = 1
    /\ prev = <<>>
    /\ atab = NoCall
    /\ ares = NotCalled

SheetNamed(book, name) == book[CHOOSE i \in DOMAIN book : book[i].name = name]

\* lines 320-338 without the check of lines 327-330
ReadPatientTableUnchecked ==
    /\ pc = "ReadPatientTable"
    /\ LET rd == ReadSheet(SheetNamed(wb, cfg.patient_sheet), cfg.patient_header_row)
       IN  /\ pc' = "BuildOrReconcileMapping"
           /\ patient_ids' = IF cfg.patient_id_col \notin Range(rd.df.cols) THEN <<>>
                              ELSE PatientIds(rd.df, cfg.patient_id_col)
    /\ UNCHANGED <<wb, cfg, csv_in, csv_out, persisted, rng, loaded, reconciled,
                   shift_mappings, sheet_idx, out_wb, run, prev, atab, ares>>

\* lines 320-338
ReadPatientTable ==
    /\ pc = "ReadPatientTable"
    /\ LET rd == ReadSheet(SheetNamed(wb, cfg.patient_sheet), cfg.patient_header_row)
       IN  IF cfg.patient_id_col \notin Range(rd.df.cols)
           THEN /\ pc' = "ErrorReadPatientTable"
                /\ UNCHANGED patient_ids
           ELSE /\ pc' = "BuildOrReconcileMapping"
                /\ patient_ids' = PatientIds(rd.df, cfg.patient_id_col)
    /\ UNCHANGED <<wb, cfg, csv_in, csv_out, persisted, rng, loaded, reconciled,
                   shift_mappings, sheet_idx, out_wb, run, prev, atab, ares>>

\* lines 340-365
BuildOrReconcileMapping ==
    /\ pc = "BuildOrReconcileMapping"
    /\ \E o \in BuildOrReconcile(patient_ids, csv_in, cfg.min_shift_days,
                                 cfg.max_shift_days, cfg.seed, rng) :
          IF ~o.ok
          THEN /\ pc' = "ErrorBuildMapping"
               /\ UNCHANGED <<loaded, reconciled, shift_mappings, rng>>
          ELSE /\ pc' = "ForEachTable"
               /\ loaded' = o.loaded
               /\ reconciled' = o.reconciled
               /\ shift_mappings' = NormalizeMapping(o.reconciled)
               /\ rng' = o.rng
    /\ UNCHANGED <<wb, cfg, csv_in, csv_out, persisted, patient_ids, sheet_idx, out_wb,
                   run, prev, atab, ares>>

\* lines 368-411 for one sheet: [ok, sheet], ok FALSE when line 394 raises
ProcessSheetUnshifted(sheet, sheet_configs, mappings) ==
    LET rd == ReadSheet(sheet, HeaderRowOf(sheet_configs, sheet.name))
    IN  [ok |-> TRUE, sheet |-> WriteSheet(sheet.name, rd.df, rd.description_rows)]

ProcessSheet(sheet, sheet_configs, mappings) ==
    LET rd == ReadSheet(sheet, HeaderRowOf(sheet_configs, sheet.name))
    IN  IF sheet.name \in DOMAIN sheet_configs
        THEN LET c == sheet_configs[sheet.name]
             IN  IF c.patient_id_col \notin Range(rd.df.cols)
                 THEN [ok |-> FALSE, sheet |-> sheet]
                 ELSE [ok |-> TRUE,
                       sheet |-> WriteSheet(sheet.name,
                                     apply_date_shifts(rd.df, c.patient_id_col,
                                                       c.date_columns, mappings),
                                     rd.description_rows)]
        ELSE [ok |-> TRUE, sheet |-> WriteSheet(sheet.name, rd.df, rd.description_rows)]

\* the names the loop of line 368 runs over, were it to run over the
\* entries of sheet_configs
ConfiguredSheetNames(book) ==
    LET idx == {i \in DOMAIN book : book[i].name \in DOMAIN cfg.sheet_configs}
    IN  [k \in 1..Cardinality(idx) |->
            book[CHOOSE i \in idx : Cardinality({j \in idx : j < i}) = k - 1].name]

\* excel_file.sheet_names: the names of the sheets in workbook order
sheet_names(book) == [i \in DOMAIN book |-> book[i].name]

\* the loop of line 368 with the output discarded when a sheet raises
ForEachTableDiscard ==
    /\ pc = "ForEachTable"
    /\ sheet_idx <= Len(sheet_names(wb))
    /\ LET r == ProcessSheet(SheetNamed(wb, sheet_names(wb)[sheet_idx]),
                             cfg.sheet_configs, shift_mappings)
       IN  IF ~r.ok
           THEN /\ pc' = "ErrorForEachTable"
                /\ out_wb' = <<>>
                /\ UNCHANGED sheet_idx
           ELSE /\ out_wb' = Append(out_wb, r.sheet)
                /\ sheet_idx' = sheet_idx + 1
                /\ pc' = IF sheet_idx = Len(sheet_names(wb))
                         THEN "PersistMapping" ELSE "ForEachTable"
    /\ UNCHANGED <<wb, cfg, csv_in, csv_out, persisted, rng, patient_ids, loaded, reconciled,
                   shift_mappings, run, prev, atab, ares>>

\* the loop of line 368 were a sheet to use up the last row of the mapping
ForEachTableShrinks ==
    /\ pc = "ForEachTable"
    /\ sheet_idx <= Len(sheet_names(wb))
    /\ LET r == ProcessSheet(SheetNamed(wb, sheet_names(wb)[sheet_idx]),
                             cfg.sheet_configs, shift_mappings)
       IN  IF ~r.ok
           THEN /\ pc' = "ErrorForEachTable"
                /\ UNCHANGED <<out_wb, sheet_idx, shift_mappings>>
           ELSE /\ out_wb' = Append(out_wb, r.sheet)
                /\ sheet_idx' = sheet_idx + 1
                /\ shift_mappings' = SubSeq(shift_mappings, 1, Len(shift_mappings) - 1)
                /\ pc' = IF sheet_idx = Len(sheet_names(wb))
                         THEN "PersistMapping" ELSE "ForEachTable"
    /\ UNCHANGED <<wb, cfg, csv_in, csv_out, persisted, rng, patient_ids, loaded,
                   reconciled, run, prev, atab, ares>>

\* one iteration of the loop of line 368
ForEachTable ==
    /\ pc = "ForEachTable"
    /\ sheet_idx <= Len(sheet_names(wb))
    /\ LET r == ProcessSheet(SheetNamed(wb, sheet_names(wb)[sheet_idx]),
                             cfg.sheet_configs, shift_mappings)
       IN  IF ~r.ok
           THEN /\ pc' = "ErrorForEachTable"
                /\ UNCHANGED <<out_wb, sheet_idx>>
           ELSE /\ out_wb' = Append(out_wb, r.sheet)
                /\ sheet_idx' = sheet_idx + 1
                /\ pc' = IF sheet_idx = Len(sheet_names(wb))
                         THEN "PersistMapping" ELSE "ForEachTable"
    /\ UNCHANGED <<wb, cfg, csv_in, csv_out, persisted, rng, patient_ids, loaded, reconciled,
                   shift_mappings, run, prev, atab, ares>>

\* lines 414-417: the path the linking table is saved to; None and the empty
\* string are both false in the test of line 414
OutputPath(linking_table_output) ==
    IF linking_table_output.t = "str" /\ linking_table_output.s # <<>>
    THEN linking_table_output
    ELSE DefaultLinkingOut

\* lines 413-417 were the table saved only when the run generated an offset
PersistWhenGenerated ==
    /\ pc = "PersistMapping"
    /\ IF Len(reconciled) > Len(FilterLoaded(loaded, patient_ids))
       THEN /\ csv_out' = to_csv(shift_mappings)
            /\ persisted' = Append(persisted, OutputPath(cfg.linking_table_output))
       ELSE UNCHANGED <<csv_out, persisted>>
    /\ pc' = "Done"
    /\ UNCHANGED <<wb, cfg, csv_in, rng, patient_ids, loaded, reconciled,
                   shift_mappings, sheet_idx, out_wb, run, prev, atab, ares>>

\* lines 413-417
PersistMapping ==
    /\ pc = "PersistMapping"
    /\ csv_out' = to_csv(shift_mappings)
    /\ persisted' = Append(persisted, OutputPath(cfg.linking_table_output))
    /\ pc' = "Done"
    /\ UNCHANGED <<wb, cfg, csv_in, rng, patient_ids, loaded, reconciled,
                   shift_mappings, sheet_idx, out_wb, run, prev, atab, ares>>

\* A second call of shift_excel_dates in the same process, on the same input
\* workbook, after a first call that was given no linking table: either with
\* linking_table_path naming the file the first call wrote and any seed, or
\* with the first call's arguments again.
Rerun ==
    /\ pc = "Done"
    /\ run = 1
    /\ ~csv_in.exists
    /\ \E relink \in BOOLEAN, sd \in Seeds :
          /\ ~relink => sd = cfg.seed /\ sd # <<>>
          /\ csv_in' = IF relink THEN csv_out ELSE csv_in
          /\ cfg' = [cfg EXCEPT !.seed = sd]
          /\ prev' = <<[out_wb |-> out_wb, csv_out |-> csv_out,
                        shift_mappings |-> shift_mappings, seed |-> cfg.seed,
                        relink |-> relink]>>
    /\ run' = 2
    /\ pc' = "ReadPatientTable"
    /\ csv_out' = NoFile
    /\ persisted' = <<>>
    /\ patient_ids' = <<>>
    /\ loaded' = <<>>
    /\ reconciled' = <<>>
    /\ shift_mappings' = <<>>
    /\ sheet_idx' = 1
    /\ out_wb' = <<>>
    /\ UNCHANGED <<wb, rng, atab, ares>>

Next ==
    \/ ReadPatientTable
    \/ BuildOrReconcileMapping
    \/ ForEachTable
    \/ PersistMapping
    \/ Rerun

Spec == Init /\ [][Next]_vars

\* one call of shift_excel_dates runs on to its return or to the exception
\* that ends it: no statement of lines 320-417 waits for anything
RunCall ==
    \/ ReadPatientTable
    \/ BuildOrReconcileMapping
    \/ ForEachTable
    \/ PersistMapping

\* the positions at which a call is running, and the ones it ends at
Running == {"ReadPatientTable", "BuildOrReconcileMapping", "ForEachTable",
            "PersistMapping"}

Errors == {"ErrorReadPatientTable", "ErrorBuildMapping", "ErrorForEachTable"}

\* A step of RunCall as far as the position goes.  RunCall can take a step
\* at every position of Running and each of its steps changes pc or
\* sheet_idx, so the steps of Next that are steps of RunStep are the steps
\* of RunCall, and RunStep is enabled where RunCall is.
RunStep ==
    /\ pc \in Running
    /\ pc' \in Running \cup Errors \cup {"Done"}
    /\ sheet_idx' \in {sheet_idx, sheet_idx + 1}
    /\ <<pc', sheet_idx'>> # <<pc, sheet_idx>>

SpecLive == Spec /\ WF_<<pc, sheet_idx>>(RunStep)

(***************************************************************************)
(* Direct calls of apply_date_shifts: a table of identifier, date and      *)
(* measurement columns, a mapping table and a list of date columns.        *)
(***************************************************************************)
MaxApplyRows == 1

MaxMapRows == 2

ApplyIdCells == {P1Padded, P9, NaN}

\* date cells the parser yields absent for
AbsentDateCells ==
    { None, NaN, IntV(5),
      Str(<<>>),
      Str(<<" ", "U", "n", "k", "n", "o", "w", "n", " ">>),
      Str(<<"U", "N", "K">>),
      Str(<<"N", "/", "a">>),
      Str(<<"s", "o", "o", "n">>),
      Str(Join3(NatToStr(2023), Pad2(13), Pad2(45), "-")) }

\* date cells the parser yields a date for
PresentDateCells ==
    { Str(Join3(NatToStr(2023), Pad2(1), Pad2(15), "-")),
      Str(<<" ">> \o Join3(NatToStr(2023), Pad2(15), Pad2(1), "-")),
      Str(Join3(Pad2(28), Pad2(2), NatToStr(2024), "/")),
      DateTimeV(ToOrdinal(2023, 12, 31), 13),
      DateV(ToOrdinal(2023, 6, 1)) }

ApplyDateCells == AbsentDateCells \cup PresentDateCells

ApplyCols == <<Str(s_patient_id), Str(s_dob), Str(s_measurement)>>

ApplyTables ==
    { DataFrame(ApplyCols, rows) :
      rows \in UNION {[1..n -> {<<i, d, IntV(7)>> : i \in ApplyIdCells,
                                                  d \in ApplyDateCells}] :
                      n \in 1..MaxApplyRows} }

ApplyMapRows ==
    { [patient_id |-> P1, shift_days |-> 10],
      [patient_id |-> P1, shift_days |-> -5],
      [patient_id |-> P9, shift_days |-> 0] }

ApplyMappings == UNION {[1..n -> ApplyMapRows] : n \in 0..MaxMapRows}

ApplyDateColumns ==
    {<<Str(s_dob)>>, <<Str(s_absent), Str(s_dob)>>, <<Str(s_dob), Str(s_absent)>>}

InitApply ==
    /\ atab \in { [df |-> t, patient_id_col |-> Str(s_patient_id),
                   date_columns |-> dc, mappings |-> m] :
                  t \in ApplyTables, dc \in ApplyDateColumns, m \in ApplyMappings }
    /\ ares = NotCalled
    /\ wb = <<>>
    /\ cfg = [seed |-> <<>>]
    /\ csv_in = NoFile
    /\ csv_out = NoFile
    /\ persisted = <<>>
    /\ rng = RngEntropy
    /\ pc = "apply_date_shifts"
    /\ patient_ids = <<>>
    /\ loaded = <<>>
    /\ reconciled = <<>>
    /\ shift_mappings = <<>>
    /\ sheet_idx = 1
    /\ out_wb = <<>>
    /\ run = 1
    /\ prev = <<>>

\* result = apply_date_shifts(df, patient_id_col, date_columns, shift_mappings)
ApplyCall ==
    /\ pc = "apply_date_shifts"
    /\ ~ares.called
    /\ LET result == apply_date_shifts(atab.df, atab.patient_id_col,
                                       atab.date_columns, atab.mappings)
       IN  /\ ares' = [called |-> TRUE, df |-> result, args |-> atab]
           /\ atab' = [atab EXCEPT !.df = CallerTable(atab.df, result)]
    /\ UNCHANGED <<wb, cfg, csv_in, csv_out, persisted, rng, pc, patient_ids, loaded,
                   reconciled, shift_mappings, sheet_idx, out_wb, run, prev>>

NextApply == ApplyCall

SpecApply == InitApply /\ [][NextApply]_vars

(***************************************************************************)
(* Direct calls of _parse_date_value on the strings y-a-b, a-b-y and       *)
(* a/b/y, the numbers a and b written in two digits.                       *)
(***************************************************************************)
MaxField == 32

ParseYears == {2023, 2024}

ParseLayouts == {"Y-A-B", "A-B-Y", "A/B/Y"}

DateText(layout, y, a, b) ==
    CASE layout = "Y-A-B" -> Join3(NatToStr(y), Pad2(a), Pad2(b), "-")
      [] layout = "A-B-Y" -> Join3(Pad2(a), Pad2(b), NatToStr(y), "-")
      [] layout = "A/B/Y" -> Join3(Pad2(a), Pad2(b), NatToStr(y), "/")

InitParse ==
    /\ atab \in { [value |-> Str(DateText(l, y, a, b)),
                   layout |-> l, y |-> y, a |-> a, b |-> b] :
                  l \in ParseLayouts, y \in ParseYears,
                  a \in 1..MaxField, b \in 1..MaxField }
    /\ ares = [called |-> FALSE, parsed |-> None]
    /\ wb = <<>>
    /\ cfg = [seed |-> <<>>]
    /\ csv_in = NoFile
    /\ csv_out = NoFile
    /\ persisted = <<>>
    /\ rng = RngEntropy
    /\ pc = "_parse_date_value"
    /\ patient_ids = <<>>
    /\ loaded = <<>>
    /\ reconciled = <<>>
    /\ shift_mappings = <<>>
    /\ sheet_idx = 1
    /\ out_wb = <<>>
    /\ run = 1
    /\ prev = <<>>

\* parsed = _parse_date_value(value)
ParseCall ==
    /\ pc = "_parse_date_value"
    /\ ~ares.called
    /\ ares' = [called |-> TRUE, parsed |-> _parse_date_value(atab.value)]
    /\ UNCHANGED <<wb, cfg, csv_in, csv_out, persisted, rng, pc, patient_ids,
                   loaded, reconciled, shift_mappings, sheet_idx, out_wb, run,
                   prev, atab>>

NextParse == ParseCall

SpecParse == InitParse /\ [][NextParse]_vars

(***************************************************************************)
(* Direct calls of _normalize_patient_id on a scalar, and what lines       *)
(* 332-362 make of a patient table that holds it: the identifiers, the     *)
(* mapping generated for them and the mapping after lines 361-362.         *)
(***************************************************************************)
MaxIdLen == 3

IdChars == {" ", "\t", "P", "1"}

IdStrings == UNION {[1..n -> IdChars] : n \in 0..MaxIdLen}

Scalars ==
    {None, NaN, IntV(0), IntV(12), IntV(-3), FloatV(12)}
    \cup {Str(t) : t \in IdStrings}

NotNormalized == [called |-> FALSE, once |-> None, twice |-> None,
                  generated |-> <<>>, renormalized |-> <<>>]

InitNormalize ==
    /\ atab \in {[value |-> x] : x \in Scalars}
    /\ ares = NotNormalized
    /\ wb = <<>>
    /\ cfg = [seed |-> <<1>>]
    /\ csv_in = NoFile
    /\ csv_out = NoFile
    /\ persisted = <<>>
    /\ rng = RngEntropy
    /\ pc = "_normalize_patient_id"
    /\ patient_ids = <<>>
    /\ loaded = <<>>
    /\ reconciled = <<>>
    /\ shift_mappings = <<>>
    /\ sheet_idx = 1
    /\ out_wb = <<>>
    /\ run = 1
    /\ prev = <<>>

\* once = _normalize_patient_id(value); twice = _normalize_patient_id(once);
\* lines 332-338, 355-357 and 361-362 for a patient table whose identifier
\* column holds value and ' P1 '
NormalizeCall ==
    /\ pc = "_normalize_patient_id"
    /\ ~ares.called
    /\ LET once == _normalize_patient_id(atab.value)
           ids == PatientIds(DataFrame(<<Str(s_patient_id)>>,
                                       << <<atab.value>>, <<P1Padded>> >>),
                             Str(s_patient_id))
       IN  \E g \in generate_shift_mappings(ids, -1, 1, cfg.seed, rng) :
              /\ ares' = [called |-> TRUE, once |-> once,
                          twice |-> _normalize_patient_id(once),
                          generated |-> g.df,
                          renormalized |-> NormalizeMapping(g.df)]
              /\ rng' = g.rng
    /\ UNCHANGED <<wb, cfg, csv_in, csv_out, persisted, pc, patient_ids,
                   loaded, reconciled, shift_mappings, sheet_idx, out_wb, run,
                   prev, atab>>

NextNormalize == NormalizeCall

SpecNormalize == InitNormalize /\ [][NextNormalize]_vars

(***************************************************************************)
(* Properties.                                                             *)
(***************************************************************************)
\* the data of a sheet of the input, and of the output, as the run reads it
InputDf(name) ==
    ReadSheet(SheetNamed(wb, name), HeaderRowOf(cfg.sheet_configs, name)).df

OutputDf(name) ==
    ReadSheet(SheetNamed(out_wb, name), HeaderRowOf(cfg.sheet_configs, name)).df

\* the rows of the persisted linking table that carry identifier p
PersistedRowsOf(p) == {i \in DOMAIN csv_out.rows : Str(csv_out.rows[i].c1) = p}

\* the identifiers of a mapping table
KeysOf(m) == {m[i].patient_id : i \in DOMAIN m}

\* the i-th smallest element of a set of numbers
NthOf(S, i) == CHOOSE x \in S : Cardinality({y \in S : y < x}) = i - 1

\* C1: in a successful run, in every configured sheet, every configured date
\* column present in it and every data row whose identifier cell normalizes
\* to an identifier p of the persisted linking table and whose date cell
\* parses to a date d, the output cell is the calendar date d + offset(p),
\* offset(p) being the one value the linking table holds for p.
C1_ShiftedByPersistedOffset ==
    pc = "Done" =>
        \A name \in DOMAIN cfg.sheet_configs :
            LET c == cfg.sheet_configs[name]
                in == InputDf(name)
                out == OutputDf(name)
                pi == ColIdx(in.cols, c.patient_id_col)
            IN  \A k \in DOMAIN c.date_columns :
                    c.date_columns[k] \in Range(in.cols) =>
                        LET di == ColIdx(in.cols, c.date_columns[k])
                        IN  \A r \in DOMAIN in.rows :
                                LET p == _normalize_patient_id(in.rows[r][pi])
                                    d == _parse_date_value(in.rows[r][di])
                                    hits == PersistedRowsOf(p)
                                IN  (d # None /\ hits # {}) =>
                                        /\ Cardinality(hits) = 1
                                        /\ \A i \in hits :
                                              out.rows[r][di] =
                                                  DateV(d.n + csv_out.rows[i].c2)

\* C1 witness: a finished run that persisted P1 -> -1 and wrote P1's dates
\* one day earlier in both configured sheets (2023-01-30 -> 2023-01-29 in
\* patients, "2023-15-01" -> 2023-01-14 in results)
C1_Witness ==
    /\ pc = "Done"
    /\ \E i \in DOMAIN csv_out.rows :
          csv_out.rows[i] = [c1 |-> <<"P", "1">>, c2 |-> -1]
    /\ InputDf("patients").rows[1][1] = P1Padded
    /\ OutputDf("patients").rows[1][2] = DateV(ToOrdinal(2023, 1, 29))
    /\ OutputDf("results").rows[1][2] = DateV(ToOrdinal(2023, 1, 14))
    /\ OutputDf("results").rows[1][3] = DateV(ToOrdinal(2023, 2, 28))

\* the identifier-to-offset pairs of a linking table file
PairsOf(file) == {<<file.rows[i].c1, file.rows[i].c2>> : i \in DOMAIN file.rows}

\* C2: a re-run on the same input with linking_table_path naming the linking
\* table the earlier run persisted (any seed or none) writes the same output
\* tables and persists the same identifier-to-offset pairs, whatever the
\* identifiers of the patient table are.
C2_RerunWithLinkingTableReproduces ==
    (pc = "Done" /\ run = 2 /\ prev[1].relink) =>
        /\ out_wb = prev[1].out_wb
        /\ PairsOf(csv_out) = PairsOf(prev[1].csv_out)

\* the entries of the linking table at linking_table_path as the file holds
\* them: the identifier text and the offset of each row
SuppliedEntries ==
    [i \in DOMAIN csv_in.rows |->
        [patient_id |-> Str(csv_in.rows[i].c1), shift_days |-> csv_in.rows[i].c2]]

\* C3: reconcile.  After a linking table was loaded, the mapping of line 358
\* is the entries of the table whose identifier is a current identifier, in
\* file order with their loaded offsets (also outside [min, max]), followed
\* by one new entry for each current identifier that no entry of the table
\* carries, in patient order, each new offset in [min, max] and, under a
\* seed, the offset the seed determines; with nothing missing nothing is
\* drawn.
C3_Reconcile ==
    (csv_in.exists /\ pc \in {"ForEachTable", "PersistMapping", "Done"}) =>
        LET keptIdx == {i \in DOMAIN SuppliedEntries :
                           SuppliedEntries[i].patient_id \in Range(patient_ids)}
            nk == Cardinality(keptIdx)
            missIdx == {i \in DOMAIN patient_ids :
                           patient_ids[i] \notin KeysOf(SuppliedEntries)}
            nm == Cardinality(missIdx)
            seeded == SeedOrKeep(cfg.seed, RngEntropy)
        IN  /\ Len(reconciled) = nk + nm
            /\ \A j \in 1..nk : reconciled[j] = SuppliedEntries[NthOf(keptIdx, j)]
            /\ \A j \in 1..nm :
                  /\ reconciled[nk + j].patient_id = patient_ids[NthOf(missIdx, j)]
                  /\ reconciled[nk + j].shift_days
                        \in cfg.min_shift_days..cfg.max_shift_days
                  /\ cfg.seed # <<>> =>
                        reconciled[nk + j].shift_days =
                            cfg.min_shift_days
                            + (RngAfter(seeded, j - 1).s
                               % (cfg.max_shift_days - cfg.min_shift_days + 1))
            /\ (nm = 0 /\ run = 1) => rng = RngEntropy

\* C4: identifiers are matched by normalized form.  A loaded entry whose
\* identifier normalizes to a current patient identifier is that patient:
\* the final mapping gives the patient an offset loaded for it and none was
\* generated for it; and in a finished run a data row is shifted by the
\* offset of the key its identifier cell normalizes to.
C4_MatchByNormalizedForm ==
    /\ (csv_in.exists /\ pc \in {"ForEachTable", "PersistMapping", "Done"}) =>
          \A i \in DOMAIN loaded :
              LET p == _normalize_patient_id(loaded[i].patient_id)
              IN  p \in Range(patient_ids) =>
                      \E j \in DOMAIN shift_mappings :
                          /\ shift_mappings[j].patient_id = p
                          /\ shift_mappings[j].shift_days \in
                                {loaded[k].shift_days :
                                    k \in {l \in DOMAIN loaded :
                                        _normalize_patient_id(loaded[l].patient_id) = p}}
    /\ (pc = "Done" /\ "results" \in DOMAIN cfg.sheet_configs) =>
          \A r \in DOMAIN InputDf("results").rows :
              LET p == _normalize_patient_id(InputDf("results").rows[r][1])
                  d == _parse_date_value(InputDf("results").rows[r][2])
              IN  \A j \in DOMAIN shift_mappings :
                      (shift_mappings[j].patient_id = p /\ d # None) =>
                          OutputDf("results").rows[r][2] =
                              DateV(d.n + shift_mappings[j].shift_days)

\* C5: on both paths the final mapping, applied and persisted, holds each
\* distinct defined normalized identifier of the patient table exactly once
\* and no other identifier; an identifier the linking table at
\* linking_table_path carries more than once has the offset of its first
\* occurrence.
C5_OneRowPerPatient ==
    pc \in {"ForEachTable", "PersistMapping", "Done"} =>
        LET df == ReadSheet(SheetNamed(wb, cfg.patient_sheet), cfg.patient_header_row).df
            pi == ColIdx(df.cols, cfg.patient_id_col)
            defined == {_normalize_patient_id(df.rows[r][pi]) : r \in DOMAIN df.rows}
                       \ {None}
        IN  /\ KeysOf(shift_mappings) = defined
            /\ Len(shift_mappings) = Cardinality(defined)
            /\ \A p \in defined :
                  LET occ == {i \in DOMAIN SuppliedEntries :
                                 SuppliedEntries[i].patient_id = p}
                  IN  (csv_in.exists /\ Cardinality(occ) > 1) =>
                          \E j \in DOMAIN shift_mappings :
                              /\ shift_mappings[j].patient_id = p
                              /\ shift_mappings[j].shift_days =
                                    SuppliedEntries[NthOf(occ, 1)].shift_days
            /\ pc = "Done" => csv_out = to_csv(shift_mappings)

\* C6: seeded determinism.  A second run on the same input with the same
\* seed and no linking table, whatever was drawn before it, generates the
\* same offsets, writes the same output tables and persists the same
\* linking table as the first.
C6_SameSeedSameResult ==
    (run = 2 /\ ~prev[1].relink /\ ~csv_in.exists
     /\ cfg.seed = prev[1].seed /\ cfg.seed # <<>>) =>
        /\ pc \in {"ForEachTable", "PersistMapping", "Done"} =>
              /\ reconciled = prev[1].shift_mappings
              /\ shift_mappings = prev[1].shift_mappings
        /\ pc = "Done" =>
              /\ out_wb = prev[1].out_wb
              /\ csv_out = prev[1].csv_out

\* C6 witness: the second seeded run finished after the first one drew two
\* offsets, a nonzero one among them
C6_Witness ==
    /\ run = 2
    /\ ~prev[1].relink
    /\ pc = "Done"
    /\ Len(shift_mappings) = 2
    /\ rng.seeded
    /\ \E i \in DOMAIN csv_out.rows : csv_out.rows[i].c2 # 0

\* C7: without a linking table every offset lies in [min_shift_days,
\* max_shift_days], there is exactly one per patient identifier, in the
\* order of the identifiers, and the persisted linking table holds only
\* offsets of that range.
C7_GeneratedOffsetsInRange ==
    (~csv_in.exists /\ pc \in {"ForEachTable", "PersistMapping", "Done"}) =>
        /\ Len(reconciled) = Len(patient_ids)
        /\ \A i \in DOMAIN reconciled :
              /\ reconciled[i].patient_id = patient_ids[i]
              /\ reconciled[i].shift_days >= cfg.min_shift_days
              /\ reconciled[i].shift_days <= cfg.max_shift_days
        /\ pc = "Done" =>
              /\ Len(csv_out.rows) = Len(patient_ids)
              /\ \A i \in DOMAIN csv_out.rows :
                    /\ csv_out.rows[i].c2 >= cfg.min_shift_days
                    /\ csv_out.rows[i].c2 <= cfg.max_shift_days

\* C7 witness: a linking table generated for two patients that holds both
\* endpoints of the range
C7_Witness ==
    /\ ~csv_in.exists
    /\ pc = "Done"
    /\ Len(csv_out.rows) = 2
    /\ csv_out.rows[1].c2 = cfg.min_shift_days
    /\ csv_out.rows[2].c2 = cfg.max_shift_days

\* C8: in apply_date_shifts a row whose normalized identifier is no key of
\* the mapping (an undefined identifier included) has each date cell that
\* parses output as the calendar date of its parse, shifted by nothing.
C8_UnmatchedRowUnshifted ==
    ares.called =>
        \A k \in DOMAIN atab.date_columns :
            atab.date_columns[k] \in Range(atab.df.cols) =>
                LET di == ColIdx(atab.df.cols, atab.date_columns[k])
                    pi == ColIdx(atab.df.cols, atab.patient_id_col)
                IN  \A r \in DOMAIN atab.df.rows :
                        LET p == _normalize_patient_id(atab.df.rows[r][pi])
                            d == _parse_date_value(atab.df.rows[r][di])
                        IN  (p \notin KeysOf(atab.mappings) /\ d # None) =>
                                ares.df.rows[r][di] = DateV(d.n)

\* C8 witness: a call with a mapping for P1 and a row whose identifier is
\* undefined and whose date is 2023-12-31 13:00; the result is 2023-12-31
C8_Witness ==
    /\ ares.called
    /\ atab.mappings # <<>>
    /\ atab.df.rows[1][1] = NaN
    /\ atab.df.rows[1][2] = DateTimeV(ToOrdinal(2023, 12, 31), 13)
    /\ ares.df.rows[1][2] = DateV(ToOrdinal(2023, 12, 31))

\* the rows of a configured sheet whose identifier is absent from the mapping
UnmatchedRows(name) ==
    LET in == InputDf(name)
        pi == ColIdx(in.cols, cfg.sheet_configs[name].patient_id_col)
    IN  {r \in DOMAIN in.rows :
            _normalize_patient_id(in.rows[r][pi]) \notin KeysOf(shift_mappings)}

\* the positions of the configured date columns a sheet has
DateColumnsOf(name) ==
    {ColIdx(InputDf(name).cols, dc) :
        dc \in Range(cfg.sheet_configs[name].date_columns) \cap Range(InputDf(name).cols)}

\* C9 as stated: after the full pipeline, for every row whose identifier is
\* absent from the mapping, each configured date cell of the output equals
\* the raw input cell exactly.
C9_UnmatchedByteIdentical ==
    pc = "Done" =>
        \A name \in DOMAIN cfg.sheet_configs :
            \A r \in UnmatchedRows(name), di \in DateColumnsOf(name) :
                OutputDf(name).rows[r][di] = InputDf(name).rows[r][di]

\* C9 as amended: for every such row each configured date cell of the output
\* is the calendar date the parser reads from the raw cell, without a time
\* of day and unshifted, or absent when the raw cell does not parse.
C9_UnmatchedParsedCalendarDate ==
    pc = "Done" =>
        \A name \in DOMAIN cfg.sheet_configs :
            \A r \in UnmatchedRows(name), di \in DateColumnsOf(name) :
                LET d == _parse_date_value(InputDf(name).rows[r][di])
                IN  OutputDf(name).rows[r][di] = IF d = None THEN None ELSE DateV(d.n)

\* C9 witness: a finished run with a non-empty mapping in which the results
\* row of P9, absent from the mapping, holds the text "30/01/2023" and the
\* output holds the date 2023-01-30
C9_Witness ==
    /\ pc = "Done"
    /\ "results" \in DOMAIN cfg.sheet_configs
    /\ shift_mappings # <<>>
    /\ 3 \in UnmatchedRows("results")
    /\ InputDf("results").rows[3][1] = P9
    /\ InputDf("results").rows[3][2].t = "str"
    /\ OutputDf("results").rows[3][2] = DateV(ToOrdinal(2023, 1, 30))

\* C10: in apply_date_shifts every configured date cell the parser yields
\* absent for (None, NaN, a placeholder token in any letter case and with
\* surrounding whitespace, a text that is no date, a value that is neither
\* text nor a date) is output as absent, in matched and unmatched rows.
C10_UnparsedIsAbsent ==
    ares.called =>
        \A k \in DOMAIN atab.date_columns :
            atab.date_columns[k] \in Range(atab.df.cols) =>
                LET di == ColIdx(atab.df.cols, atab.date_columns[k])
                IN  \A r \in DOMAIN atab.df.rows :
                        (\/ atab.df.rows[r][di] \in AbsentDateCells
                         \/ _parse_date_value(atab.df.rows[r][di]) = None) =>
                            ares.df.rows[r][di] = None

\* C10 witness: a row of P1, which the mapping shifts by 10, whose date cell
\* is " Unknown "; the result cell is absent
C10_Witness ==
    /\ ares.called
    /\ atab.mappings = <<[patient_id |-> P1, shift_days |-> 10]>>
    /\ atab.df.rows[1][1] = P1Padded
    /\ atab.df.rows[1][2] = Str(<<" ", "U", "n", "k", "n", "o", "w", "n", " ">>)
    /\ ares.df.rows[1][2] = None

\* the cell apply_date_shifts is to produce for raw date cell c in a row
\* whose raw identifier cell is i, under mapping table m
ExpectedDateCell(i, c, m) ==
    LET p == _normalize_patient_id(i)
        d == _parse_date_value(c)
    IN  IF d = None THEN None
        ELSE IF p \in KeysOf(m) THEN DateV(d.n + ShiftDict(m)[p])
        ELSE DateV(d.n)

\* C11: in apply_date_shifts a configured date column name that is no column
\* of the table is skipped without error (the result has the columns and
\* the rows of the input and no column of that name), and the configured
\* date column that is present is parsed and shifted all the same, whether
\* the absent name comes before or after it in the list.
C11_AbsentColumnSkipped ==
    (ares.called /\ Str(s_absent) \in Range(ares.args.date_columns)) =>
        /\ ares.df.cols = ares.args.df.cols
        /\ Len(ares.df.rows) = Len(ares.args.df.rows)
        /\ \A r \in DOMAIN ares.args.df.rows :
              ares.df.rows[r][2] =
                  ExpectedDateCell(ares.args.df.rows[r][1], ares.args.df.rows[r][2],
                                   ares.args.mappings)

\* C11 witness: date_columns names the absent column first and dob second;
\* the row of " P1 ", which the mapping shifts by 10, holds "2023-01-15" and
\* the result holds 2023-01-25
C11_Witness ==
    /\ ares.called
    /\ ares.args.date_columns = <<Str(s_absent), Str(s_dob)>>
    /\ ares.args.mappings = <<[patient_id |-> P1, shift_days |-> 10]>>
    /\ ares.args.df.rows[1][1] = P1Padded
    /\ ares.args.df.rows[1][2] = Str(Join3(NatToStr(2023), Pad2(1), Pad2(15), "-"))
    /\ ares.df.rows[1][2] = DateV(ToOrdinal(2023, 1, 25))

\* C12: after apply_date_shifts every cell of every configured date column
\* the table has is a calendar date without a time of day or absent,
\* whatever the input cell, in matched and unmatched rows, also under the
\* offset zero.
C12_DateOrAbsent ==
    ares.called =>
        \A k \in DOMAIN ares.args.date_columns :
            ares.args.date_columns[k] \in Range(ares.df.cols) =>
                \A r \in DOMAIN ares.df.rows :
                    LET c == ares.df.rows[r][ColIdx(ares.df.cols, ares.args.date_columns[k])]
                    IN  c = None \/ (c.t = "date" /\ c.h = 0)

\* C12 witness: the row of P9, which the mapping shifts by 0, holds the
\* date-time 2023-12-31 13:00 and the result holds the date 2023-12-31
C12_Witness ==
    /\ ares.called
    /\ ares.args.mappings = <<[patient_id |-> P9, shift_days |-> 0]>>
    /\ ares.args.df.rows[1][1] = P9
    /\ ares.args.df.rows[1][2] = DateTimeV(ToOrdinal(2023, 12, 31), 13)
    /\ ares.df.rows[1][2] = DateV(ToOrdinal(2023, 12, 31))

\* C13: apply_date_shifts does not mutate its inputs: after the call the
\* table the caller passed (every column, the identifier and the date
\* columns included) and the mapping table have the values they had when the
\* call was made.
C13_InputsNotMutated ==
    ares.called =>
        /\ atab.df = ares.args.df
        /\ atab.mappings = ares.args.mappings

\* C13 witness: a call whose result differs from the input in the identifier
\* column (" P1 " became "P1") and in the date column (a text became a
\* shifted date), while the caller's table still holds " P1 " and the text
C13_Witness ==
    /\ ares.called
    /\ ares.args.mappings = <<[patient_id |-> P1, shift_days |-> 10]>>
    /\ ares.args.df.rows[1][1] = P1Padded
    /\ ares.args.df.rows[1][2] = Str(Join3(NatToStr(2023), Pad2(1), Pad2(15), "-"))
    /\ ares.df.rows[1][1] = P1
    /\ ares.df.rows[1][2] = DateV(ToOrdinal(2023, 1, 25))
    /\ atab.df.rows[1][1] = P1Padded
    /\ atab.df.rows[1][2].t = "str"

\* two cells hold the same value; a missing value is one value, whether
\* pandas holds it as None or as NaN
SameValue(a, b) == a = b \/ ({a, b} \subseteq {None, NaN})

\* C14: non-date columns are unchanged.  In the table apply_date_shifts
\* returns every column that is not a configured date column, the
\* identifier column included, has in every row exactly the value it had in
\* the input.
C14_NonDateColumnsUnchanged ==
    ares.called =>
        \A j \in DOMAIN ares.args.df.cols :
            ares.args.df.cols[j] \notin Range(ares.args.date_columns) =>
                \A r \in DOMAIN ares.args.df.rows :
                    SameValue(ares.df.rows[r][j], ares.args.df.rows[r][j])

\* the linking table at linking_table_path lacks a required column
LacksRequiredColumn ==
    "patient_id" \notin Range(csv_in.cols) \/ "shift_days" \notin Range(csv_in.cols)

\* C15: load_shift_mappings raises exactly when the file lacks the
\* patient_id or the shift_days column, and otherwise returns the rows of
\* the file in file order; in shift_excel_dates the error comes before any
\* mapping work: nothing was loaded, no offset was drawn, no sheet was
\* written and no linking table was persisted.
C15_LoadFailsIffColumnAbsent ==
    /\ (csv_in.exists /\ pc \notin {"ReadPatientTable", "ErrorReadPatientTable",
                                    "BuildOrReconcileMapping"}) =>
          (pc = "ErrorBuildMapping" <=> LacksRequiredColumn)
    /\ pc = "ErrorBuildMapping" =>
          /\ loaded = <<>> /\ reconciled = <<>> /\ shift_mappings = <<>>
          /\ rng = RngEntropy
          /\ out_wb = <<>>
          /\ csv_out = NoFile
    /\ (csv_in.exists /\ pc \in {"ForEachTable", "PersistMapping", "Done"}) =>
          /\ Len(loaded) = Len(csv_in.rows)
          /\ \A i \in DOMAIN loaded :
                /\ loaded[i].shift_days = csv_in.rows[i].c2
                /\ \/ loaded[i].patient_id = Str(csv_in.rows[i].c1)
                   \/ /\ IsIntLiteral(csv_in.rows[i].c1)
                      /\ loaded[i].patient_id = IntV(IntLiteral(csv_in.rows[i].c1))

\* C15 witness: the call failed on a linking table that has the patient_id
\* column and a row but no shift_days column, after the patient identifiers
\* were read
C15_Witness ==
    /\ pc = "ErrorBuildMapping"
    /\ csv_in.cols = <<"patient_id", "days">>
    /\ Len(csv_in.rows) = 1
    /\ patient_ids # <<>>

\* the configured identifier column is no column of the patient sheet
PatientColumnAbsent ==
    cfg.patient_id_col \notin
        Range(ReadSheet(SheetNamed(wb, cfg.patient_sheet), cfg.patient_header_row).df.cols)

\* C16: when the configured identifier column is absent from the patient
\* sheet, shift_excel_dates fails in ReadPatientTable and goes no further:
\* no linking table is loaded, no offset is generated, no sheet is written
\* and no linking table is persisted.
C16_PatientColumnAbsentFails ==
    /\ PatientColumnAbsent => pc \in {"ReadPatientTable", "ErrorReadPatientTable"}
    /\ pc = "ErrorReadPatientTable" =>
          /\ PatientColumnAbsent
          /\ patient_ids = <<>>
          /\ loaded = <<>> /\ reconciled = <<>> /\ shift_mappings = <<>>
          /\ rng = RngEntropy
          /\ out_wb = <<>>
          /\ csv_out = NoFile

\* C16 witness: the call failed in ReadPatientTable although a well-formed
\* linking table was supplied and the sheets are configured correctly
C16_Witness ==
    /\ pc = "ErrorReadPatientTable"
    /\ csv_in.exists
    /\ csv_in.cols = LinkingCols
    /\ cfg.sheet_configs = SheetConfigs

\* C17 as stated: when a configured sheet lacks its configured identifier
\* column the run is aborted and leaves no partial output: when the error is
\* raised no sheet has been written to the output workbook and the linking
\* table is not persisted.
C17_AbortWithoutPartialOutput ==
    pc = "ErrorForEachTable" =>
        /\ out_wb = <<>>
        /\ csv_out = NoFile

\* C17 as amended: when a configured sheet lacks its configured identifier
\* column the run is aborted at that sheet: that sheet and the sheets after
\* it are not written and the linking table is not persisted, while the
\* sheets enumerated before it have been written to the output workbook, one
\* each and in order.
C17_AbortAtFailingSheet ==
    pc = "ErrorForEachTable" =>
        /\ sheet_idx \in DOMAIN wb
        /\ wb[sheet_idx].name \in DOMAIN cfg.sheet_configs
        /\ cfg.sheet_configs[wb[sheet_idx].name].patient_id_col \notin
              Range(ReadSheet(wb[sheet_idx],
                              HeaderRowOf(cfg.sheet_configs, wb[sheet_idx].name)).df.cols)
        /\ Len(out_wb) = sheet_idx - 1
        /\ \A i \in DOMAIN out_wb :
              /\ out_wb[i].name = wb[i].name
              /\ Len(out_wb[i].grid) = Len(wb[i].grid)
        /\ csv_out = NoFile

\* C17 witness: the results sheet, second in the workbook, lacks its
\* configured identifier column; the notes sheet before it has been written
\* and the patient sheet after it has not
C17_Witness ==
    /\ pc = "ErrorForEachTable"
    /\ sheet_idx = 2
    /\ wb[2].name = "results"
    /\ wb[3].name = "patients"
    /\ Len(out_wb) = 1
    /\ out_wb[1].name = "notes"
    /\ shift_mappings # <<>>
    /\ csv_out = NoFile

\* C18: in a successful run the output workbook holds exactly the sheets of
\* the input workbook, each once and in the input's order, whichever sheets
\* are configured.
C18_SheetsInInputOrder ==
    pc = "Done" =>
        /\ Len(out_wb) = Len(wb)
        /\ \A i \in DOMAIN wb : out_wb[i].name = wb[i].name
        /\ \A i, j \in DOMAIN out_wb : out_wb[i].name = out_wb[j].name => i = j

\* C18 witness: a finished run on the workbook notes, results, patients in
\* which only results is configured; the output is notes, results, patients
C18_Witness ==
    /\ pc = "Done"
    /\ DOMAIN cfg.sheet_configs = {"results"}
    /\ wb[1].name = "notes"
    /\ Len(out_wb) = 3
    /\ out_wb[1].name = "notes"
    /\ out_wb[2].name = "results"
    /\ out_wb[3].name = "patients"

\* C19: a sheet that is absent from sheet_configs, the patient sheet
\* possibly among them, is read with header row 0, is neither parsed nor
\* shifted, and is written so that every cell of the output sheet equals the
\* input cell at the same row and column.
C19_UnconfiguredSheetVerbatim ==
    pc = "Done" =>
        \A i \in DOMAIN wb :
            wb[i].name \notin DOMAIN cfg.sheet_configs =>
                /\ HeaderRowOf(cfg.sheet_configs, wb[i].name) = 0
                /\ Len(out_wb[i].grid) = Len(wb[i].grid)
                /\ \A r \in DOMAIN wb[i].grid :
                      /\ Len(out_wb[i].grid[r]) = Len(wb[i].grid[r])
                      /\ \A c \in DOMAIN wb[i].grid[r] :
                            SameValue(out_wb[i].grid[r][c], wb[i].grid[r][c])

\* the labels of the columns of a sheet that shift_excel_dates rewrites: the
\* configured date columns and the configured identifier column
RewrittenLabels(name) ==
    IF name \in DOMAIN cfg.sheet_configs
    THEN Range(cfg.sheet_configs[name].date_columns)
         \cup {cfg.sheet_configs[name].patient_id_col}
    ELSE {}

SavedOnce ==
    /\ pc = "Done"
    /\ Len(persisted) = 1
    /\ persisted[1] = (IF cfg.linking_table_output \in {None, Str(<<>>)}
                       THEN DefaultLinkingOut ELSE cfg.linking_table_output)
    /\ csv_out = to_csv(shift_mappings)
    /\ Len(out_wb) = Len(wb)

C21_PersistedOnceAfterLastSheet ==
    /\ [](pc # "Done" => persisted = <<>> /\ csv_out = NoFile)
    /\ [](pc = "Done" => SavedOnce)
    /\ (pc = "PersistMapping" /\ Len(out_wb) = Len(wb)) ~> SavedOnce
    /\ (pc = "ReadPatientTable") ~> (pc \in Errors \/ SavedOnce)

\* a run given no linking_table_output that found every identifier in the
\* loaded linking table, generated nothing and saved to the default path
C21_Witness ==
    /\ pc = "Done"
    /\ cfg.linking_table_output = None
    /\ csv_in.exists
    /\ Len(patient_ids) = 2
    /\ reconciled = FilterLoaded(loaded, patient_ids)
    /\ rng = RngEntropy
    /\ persisted = <<DefaultLinkingOut>>
    /\ Len(csv_out.rows) = 2

\* C22: no sheet is written before the mapping is built; from the first
\* iteration of the loop of line 368 on, the mapping has exactly one row for
\* each identifier of the patient table, no step of the loop changes it,
\* every sheet written so far is the one the current mapping produces, and
\* the pairs saved at PersistMapping are the pairs the sheets were shifted by.
AppliedPairs == {<<k.s, ShiftDict(shift_mappings)[k]>> : k \in KeysOf(shift_mappings)}

MappingComplete ==
    /\ shift_mappings = NormalizeMapping(reconciled)
    /\ KeysOf(shift_mappings) = Range(patient_ids)
    /\ Cardinality(KeysOf(shift_mappings)) = Len(shift_mappings)

SheetsUseMapping ==
    \A i \in DOMAIN out_wb :
        out_wb[i] = ProcessSheet(wb[i], cfg.sheet_configs, shift_mappings).sheet

MappingKept ==
    pc \in {"ForEachTable", "PersistMapping"} => shift_mappings' = shift_mappings

C22_MappingFixedBeforeSheets ==
    /\ [](pc \in {"ReadPatientTable", "BuildOrReconcileMapping"} => out_wb = <<>>)
    /\ [](pc \in {"ForEachTable", "PersistMapping", "Done", "ErrorForEachTable"}
            => MappingComplete /\ SheetsUseMapping)
    /\ [](pc = "Done" => PairsOf(csv_out) = AppliedPairs)
    /\ [][MappingKept]_vars

\* a finished run over three sheets, two of them shifted, whose mapping holds
\* a loaded pair and a generated one
C22_Witness ==
    /\ pc = "Done"
    /\ Len(out_wb) = 3
    /\ DOMAIN cfg.sheet_configs = {"patients", "results"}
    /\ csv_in.exists
    /\ Len(shift_mappings) = 2
    /\ Len(FilterLoaded(loaded, patient_ids)) = 1
    /\ Len(reconciled) > Len(FilterLoaded(loaded, patient_ids))
    /\ PairsOf(csv_out) = AppliedPairs
    /\ \E i \in DOMAIN out_wb : out_wb[i] # WriteSheet(wb[i].name,
            ReadSheet(wb[i], HeaderRowOf(cfg.sheet_configs, wb[i].name)).df,
            ReadSheet(wb[i], HeaderRowOf(cfg.sheet_configs, wb[i].name)).description_rows)

\* C23: of a string y-a-b the parser makes month a, day b when that is a
\* calendar date (also when b <= 12), and day a, month b when a > 12 and that
\* is a calendar date; of a string a-b-y it makes day a, month b when that is
\* a calendar date (also when a <= 12), and month a, day b when b > 12 and
\* that is a calendar date; a dash string that is a date under none of the
\* four readings is absent; a string a/b/y, which none of the four formats
\* matches, is read day first when that is a calendar date and is absent
\* when it is a date neither way.
CalendarDate(y, m, d) == Timestamp(ToOrdinal(y, m, d), 0)

ParsedAsClaimed(layout, y, a, b, parsed) ==
    CASE layout = "Y-A-B" ->
            IF a \in 1..12 /\ b \in 1..DaysInMonth(y, a)
            THEN parsed = CalendarDate(y, a, b)
            ELSE IF a > 12 /\ b \in 1..12 /\ a \in 1..DaysInMonth(y, b)
            THEN parsed = CalendarDate(y, b, a)
            ELSE parsed = None
      [] layout = "A-B-Y" ->
            IF b \in 1..12 /\ a \in 1..DaysInMonth(y, b)
            THEN parsed = CalendarDate(y, b, a)
            ELSE IF b > 12 /\ a \in 1..12 /\ b \in 1..DaysInMonth(y, a)
            THEN parsed = CalendarDate(y, a, b)
            ELSE parsed = None
      [] layout = "A/B/Y" ->
            IF b \in 1..12 /\ a \in 1..DaysInMonth(y, b)
            THEN parsed = CalendarDate(y, b, a)
            ELSE IF a \in 1..12 /\ b \in 1..DaysInMonth(y, a)
            THEN parsed.t = "ts"
            ELSE parsed = None

C23_FormatsInFixedOrder ==
    ares.called => ParsedAsClaimed(atab.layout, atab.y, atab.a, atab.b, ares.parsed)

\* 2023-01-02 read as the second of January, not the first of February
C23_Witness ==
    /\ ares.called
    /\ atab.value = Str(<<"2", "0", "2", "3", "-", "0", "1", "-", "0", "2">>)
    /\ ares.parsed = CalendarDate(2023, 1, 2)

\* C24: _normalize_patient_id yields a value for every scalar; it yields
\* None exactly for None, NaN and the strings that hold nothing but
\* whitespace; any other result is the string form of the scalar without its
\* leading and trailing whitespace; normalizing the result again yields the
\* result; and lines 361-362 leave the rows of a mapping generated for the
\* identifiers of a patient table as they are.
StringForm(x) == IF x.t = "str" THEN x.s ELSE PyStr(x)

\* r is t without a leading and a trailing run of whitespace, and neither
\* begins nor ends with whitespace
IsTrimOf(t, r) ==
    /\ r # <<>>
    /\ r[1] \notin Whitespace
    /\ r[Len(r)] \notin Whitespace
    /\ \E i \in 0..Len(t) :
          /\ i + Len(r) <= Len(t)
          /\ r = SubSeq(t, i + 1, i + Len(r))
          /\ \A k \in 1..i : t[k] \in Whitespace
          /\ \A k \in (i + Len(r) + 1)..Len(t) : t[k] \in Whitespace

C24_NormalizeIdempotentTotal ==
    ares.called =>
        LET x == atab.value
            blank == x.t = "str" /\ \A k \in DOMAIN x.s : x.s[k] \in Whitespace
        IN  /\ ares.once = None <=> (x \in {None, NaN} \/ blank)
            /\ ares.once # None =>
                   ares.once.t = "str" /\ IsTrimOf(StringForm(x), ares.once.s)
            /\ ares.twice = ares.once
            /\ ares.renormalized = ares.generated
            /\ \A i \in DOMAIN ares.generated :
                   ares.generated[i].patient_id \in {ares.once, P1}

\* ' P ' normalizes to 'P', which normalizes to itself, and the mapping
\* generated for 'P' and 'P1' keeps its two keys
C24_Witness ==
    /\ ares.called
    /\ atab.value = Str(<<" ", "P", " ">>)
    /\ ares.once = Str(<<"P">>)
    /\ ares.twice = Str(<<"P">>)
    /\ Len(ares.generated) = 2
    /\ ares.renormalized = ares.generated

====
